---- MODULE Spec2Model ----
(***************************************************************************)
(* Order synchronisation and file export of chl_web.orders:                *)
(*   VtexClientOrder.get_orders        paginated fetch from the remote API *)
(*   VtexClientOrder.factory           upsert of Orders by order_number    *)
(*   VtexClientOrderItem.factory       upsert of OrderItems by (order,ean) *)
(*   VtexClientOrder.get_file_headers / get_file_items   file formatting   *)
(*   VtexClientOrder.upload_to_sftp / create_order_files delivery          *)
(*   scripts/upload_orders_file_to_sftp.run              the composed run  *)
(* Texts are TLA+ strings; a file's content is the sequence of the strings *)
(* written to it, "\n" being a token of its own.                           *)
(***************************************************************************)
EXTENDS Integers, Sequences, FiniteSets, TLC

\* ------------------------------------------------------------------ bounds

MaxPages == 3       \* pages the remote API reports
MaxPageSize == 2    \* order summaries on one page
MaxIngested == 2    \* raw orders handed to factory, over all sync runs
MaxItems == 2       \* items in one raw order's item list
MaxFiles == 2       \* orders handed to one upload_to_sftp call

OrderIds == {"o1", "o2"}
RunOrderIds == <<"o1", "o2", "o3", "o4">>

\* ------------------------------------------------------------- primitives

None == "None"

SeqsUpTo(S, n) == UNION {[1..k -> S] : k \in 0..n}

Range(s) == {s[i] : i \in DOMAIN s}

RECURSIVE Concat(_)
\* "".join(strs)
Concat(strs) ==
    IF strs = <<>> THEN "" ELSE Head(strs) \o Concat(Tail(strs))

RECURSIVE Join(_, _)
\* sep.join(strs)
Join(sep, strs) ==
    IF strs = <<>> THEN ""
    ELSE IF Len(strs) = 1 THEN strs[1]
    ELSE strs[1] \o sep \o Join(sep, Tail(strs))

RECURSIVE Flatten(_)
Flatten(ss) ==
    IF ss = <<>> THEN <<>> ELSE Head(ss) \o Flatten(Tail(ss))

Pad(n, width) ==
    LET s == ToString(n)
        zeros == CASE n < 10 -> width - 1
                   [] n < 100 -> width - 2
                   [] n < 1000 -> width - 3
                   [] OTHER -> width - 4
    IN  Concat([i \in 1..(IF zeros > 0 THEN zeros ELSE 0) |-> "0"]) \o s

\* ------------------------------------------------------- clock and filter

\* Seconds since 2016-01-01T00:00:00Z; the literal bounds of the default
\* filter of get_orders, "2016-01-01T02:00:00.000Z" and
\* "2021-01-01T01:59:59.999Z" (whole seconds kept).
DefaultFilterFrom == 7200
DefaultFilterTo == 157859999
OneHour == 3600

\* 2016-01-01T03:00:00Z and 2026-11-03T00:00:00Z
Nows == {10800, 342057600}

\* Order.get_orders_filter_hours_range: the text
\* creationDate:[<from> TO <to>] as the pair it carries.
\* An optional datetime argument is <<>> (None) or <<t>>.
get_orders_filter_hours_range(from_time, to_time, utcnow) ==
    LET from == IF from_time = <<>> THEN utcnow ELSE from_time[1]
        to == IF to_time = <<>> THEN utcnow - OneHour ELSE to_time[1]
    IN  [from |-> from, to |-> to]

\* get_orders' querystring when the caller passes none.
DefaultQuerystring ==
    [f_creationDate |-> [from |-> DefaultFilterFrom, to |-> DefaultFilterTo]]

\* ------------------------------------------------------------- timestamps

\* A remote timestamp "YYYY-MM-DDTHH:MM:SS.fffZ": its fields and the text
\* after the first ".".
RawTimestamp(y, m, d, H, M, S, rest) ==
    [y |-> y, m |-> m, d |-> d, H |-> H, M |-> M, S |-> S, rest |-> rest]

\* Order.ws_strptime: date.split(".")[0] parsed with %Y-%m-%dT%H:%M:%S.
ws_strptime(date) ==
    [y |-> date.y, m |-> date.m, d |-> date.d,
     H |-> date.H, M |-> date.M, S |-> date.S]

\* The datetime None.
NoDate == [y |-> 0, m |-> 0, d |-> 0, H |-> 0, M |-> 0, S |-> 0]

\* Order.erp_strftime: "" for None, else %d%m%Y.
erp_strftime(date) ==
    IF date = NoDate THEN ""
    ELSE Pad(date.d, 2) \o Pad(date.m, 2) \o Pad(date.y, 4)

\* ------------------------------------------------------------- raw orders

RawItem(ean, quantity, price) ==
    [ean |-> ean, quantity |-> quantity, price |-> price]

RawItems == {RawItem("e1", 1, 1999), RawItem("e2", 2, 2550)}

\* The order document of the detail endpoint.
RawOrder(id, its) ==
    [orderId |-> id,
     creationDate |-> RawTimestamp(2021, 3, 4, 10, 15, 30, "123Z"),
     clientProfileData |->
        [firstName |-> "Ana", lastName |-> "Paz", document |-> "900",
         phone |-> "555", email |-> "ana@x.co"],
     shippingData |->
        [selectedAddresses |->
            <<[street |-> "Main", number |-> "42", complement |-> "",
               neighborhood |-> "Centro", city |-> "Cali",
               reference |-> None, postalCode |-> "760"]>>,
         logisticsInfo |->
            <<[shippingEstimateDate |->
                  RawTimestamp(2021, 3, 9, 8, 0, 0, "0000000+00:00")]>>],
     items |-> its]

ItemLists(n) == SeqsUpTo(RawItems, n)

RawOrders(n) == {RawOrder(id, its) : id \in OrderIds, its \in ItemLists(n)}

\* ----------------------------------------------------------------- mapper

RECURSIVE PresentParts(_, _)
\* [address_data[info] for info in keys if address_data.get(info)]
PresentParts(address_data, keys) ==
    IF keys = <<>> THEN <<>>
    ELSE LET v == address_data[Head(keys)]
             rest == PresentParts(address_data, Tail(keys))
         IN  IF v = None \/ v = "" THEN rest ELSE <<v>> \o rest

\* VtexClientOrder.format_ws_address_data
format_ws_address_data(order) ==
    LET address_data == order.shippingData.selectedAddresses[1]
    IN  [city |-> address_data.city,
         info |-> Join(" ", PresentParts(address_data,
                     <<"street", "number", "complement", "neighborhood">>)),
         reference |-> IF address_data.reference = None
                       THEN "" ELSE address_data.reference,
         postal_code |-> address_data.postalCode]

\* The defaults dict of VtexClientOrder.factory for one raw order.
OrderDefaults(order) ==
    LET address == format_ws_address_data(order)
    IN  [order_created_at |-> ws_strptime(order.creationDate),
         shipping_stimate_date |-> ws_strptime(
             order.shippingData.logisticsInfo[1].shippingEstimateDate),
         buyer_fullname |-> order.clientProfileData.firstName \o " "
                            \o order.clientProfileData.lastName,
         buyer_document |-> order.clientProfileData.document,
         buyer_phone |-> order.clientProfileData.phone,
         buyer_email |-> order.clientProfileData.email,
         shipping_address |-> address.info,
         shipping_address_city |-> address.city,
         shipping_address_reference |-> address.reference,
         shipping_address_zip |-> address.postal_code,
         order_number |-> order.orderId,
         route_text_code |-> "",
         from_api |-> order]

\* VtexClientOrder.__init__: the fields fixed for this integration.
VtexClientOrderInit ==
    [order_type |-> "H", client_code |-> "CT0000344", file_type |-> "E-COMM",
     company_code |-> "120", currency |-> "COP", sell_type |-> "V010",
     sell_type_code |-> "222", payment_proof |-> "", seller_code |-> "V02011",
     route_text_code |-> "", warehouse_code |-> "CM0000001"]

\* VtexClientOrderItem.__init__
VtexClientOrderItemInit ==
    [item_type |-> "D", qty |-> 0, destination_address_code |-> "",
     tax_code |-> "001"]

\* The defaults dict of VtexClientOrderItem.factory for the item at
\* 0-based position index.
ItemDefaults(index, item) ==
    [item_number |-> index + 1,
     item_qty |-> item.quantity,
     item_price_without_tax |-> item.price \div 100]

\* ------------------------------------------------------------------ store

\* The rows of a table whose pk is the row's position; nothing in this
\* pipeline deletes a row.

\* VtexClientOrder.objects.update_or_create(order_number=n, defaults=d):
\* get() by order_number; none: create; one: set the defaults and save;
\* several: MultipleObjectsReturned.
OrderMatches(rows, n) == {i \in DOMAIN rows : rows[i].order_number = n}

CreateOrder(rows, defaults) ==
    LET obj == [k \in {"id"} \cup DOMAIN VtexClientOrderInit
                     \cup DOMAIN defaults |->
                  IF k = "id" THEN Len(rows) + 1
                  ELSE IF k \in DOMAIN defaults THEN defaults[k]
                  ELSE VtexClientOrderInit[k]]
    IN  [rows |-> Append(rows, obj), obj |-> obj, raised |-> FALSE]

UpdateOrder(rows, i, defaults) ==
    LET obj == [k \in DOMAIN rows[i] |->
                  IF k \in DOMAIN defaults THEN defaults[k] ELSE rows[i][k]]
    IN  [rows |-> [rows EXCEPT ![i] = obj], obj |-> obj, raised |-> FALSE]

\* create() where update_or_create() is meant.
AlwaysCreateOrder(rows, n, defaults) == CreateOrder(rows, defaults)

update_or_create_order(rows, n, defaults) ==
    LET found == OrderMatches(rows, n)
    IN  IF found = {} THEN CreateOrder(rows, defaults)
        ELSE IF Cardinality(found) = 1
        THEN UpdateOrder(rows, CHOOSE i \in found : TRUE, defaults)
        ELSE [rows |-> rows, obj |-> defaults, raised |-> TRUE]

RECURSIVE OrderFactoryLoop(_, _, _)
\* The loop of VtexClientOrder.factory over orders_from_api: the table and
\* the list of returned instances; an exception ends the loop where it is.
OrderFactoryLoop(rows, objects, orders_from_api) ==
    IF orders_from_api = <<>>
    THEN [rows |-> rows, objects |-> objects, raised |-> FALSE]
    ELSE LET order == Head(orders_from_api)
             r == update_or_create_order(rows, order.orderId,
                                         OrderDefaults(order))
         IN  IF r.raised
             THEN [rows |-> r.rows, objects |-> objects, raised |-> TRUE]
             ELSE OrderFactoryLoop(r.rows, Append(objects, r.obj),
                                   Tail(orders_from_api))

\* VtexClientOrderItem.objects.update_or_create(order=o, ean=e, defaults=d)
ItemMatches(rows, order, ean) ==
    {i \in DOMAIN rows : rows[i].order = order.id /\ rows[i].ean = ean}

CreateItem(rows, order, ean, defaults) ==
    LET keys == {"id", "order", "ean"} \cup DOMAIN VtexClientOrderItemInit
                   \cup DOMAIN defaults
        obj == [k \in keys |->
                  CASE k = "id" -> Len(rows) + 1
                    [] k = "order" -> order.id
                    [] k = "ean" -> ean
                    [] k \in DOMAIN defaults -> defaults[k]
                    [] OTHER -> VtexClientOrderItemInit[k]]
    IN  [rows |-> Append(rows, obj), obj |-> obj, raised |-> FALSE]

UpdateItem(rows, i, defaults) ==
    LET obj == [k \in DOMAIN rows[i] |->
                  IF k \in DOMAIN defaults THEN defaults[k] ELSE rows[i][k]]
    IN  [rows |-> [rows EXCEPT ![i] = obj], obj |-> obj, raised |-> FALSE]

\* create() where update_or_create() is meant.
AlwaysCreateItem(rows, order, ean, defaults) ==
    CreateItem(rows, order, ean, defaults)

update_or_create_item(rows, order, ean, defaults) ==
    LET found == ItemMatches(rows, order, ean)
    IN  IF found = {} THEN CreateItem(rows, order, ean, defaults)
        ELSE IF Cardinality(found) = 1
        THEN UpdateItem(rows, CHOOSE i \in found : TRUE, defaults)
        ELSE [rows |-> rows, obj |-> defaults, raised |-> TRUE]

RECURSIVE ItemLoop(_, _, _, _)
\* for index, item in enumerate(order.from_api["items"]), from position
\* index on.
ItemLoop(rows, order, raw_items, index) ==
    IF index >= Len(raw_items) THEN [rows |-> rows, raised |-> FALSE]
    ELSE LET item == raw_items[index + 1]
             r == update_or_create_item(rows, order, item.ean,
                                        ItemDefaults(index, item))
         IN  IF r.raised THEN [rows |-> r.rows, raised |-> TRUE]
             ELSE ItemLoop(r.rows, order, raw_items, index + 1)

RECURSIVE ItemFactoryLoop(_, _)
\* The loop of VtexClientOrderItem.factory over orders_from_db (the
\* instances factory returned, each with the from_api it was given).
ItemFactoryLoop(rows, from_db) ==
    IF from_db = <<>> THEN [rows |-> rows, raised |-> FALSE]
    ELSE LET order == Head(from_db)
             r == ItemLoop(rows, order, order.from_api.items, 0)
         IN  IF r.raised THEN r ELSE ItemFactoryLoop(r.rows, Tail(from_db))

\* -------------------------------------------------------------- formatter

\* The header with the order date and the shipping date exchanged.
HeadersDatesSwapped(order) ==
    <<order.order_type,
      "|" \o order.client_code,
      "|" \o order.file_type,
      "|" \o order.company_code,
      "|" \o erp_strftime(order.shipping_stimate_date),
      "|" \o erp_strftime(order.order_created_at),
      "|" \o order.currency,
      "|" \o order.buyer_fullname \o "/" \o order.buyer_document \o "/"
          \o order.shipping_address_city \o "/" \o order.shipping_address
          \o "/" \o order.buyer_phone \o "/"
          \o order.shipping_address_reference,
      "|1",
      "|" \o order.warehouse_code,
      "|" \o order.order_number,
      "|?," \o order.buyer_document \o ",?," \o order.buyer_fullname \o ","
          \o order.sell_type \o "," \o order.shipping_address_zip,
      "|" \o order.sell_type_code \o "," \o order.payment_proof,
      "|" \o order.seller_code,
      "|" \o order.route_text_code,
      "|" \o order.buyer_email>>

\* VtexClientOrder.get_file_headers
get_file_headers(order) ==
    <<order.order_type,
      "|" \o order.client_code,
      "|" \o order.file_type,
      "|" \o order.company_code,
      "|" \o erp_strftime(order.order_created_at),
      "|" \o erp_strftime(order.shipping_stimate_date),
      "|" \o order.currency,
      "|" \o order.buyer_fullname \o "/" \o order.buyer_document \o "/"
          \o order.shipping_address_city \o "/" \o order.shipping_address
          \o "/" \o order.buyer_phone \o "/"
          \o order.shipping_address_reference,
      "|1",
      "|" \o order.warehouse_code,
      "|" \o order.order_number,
      "|?," \o order.buyer_document \o ",?," \o order.buyer_fullname \o ","
          \o order.sell_type \o "," \o order.shipping_address_zip,
      "|" \o order.sell_type_code \o "," \o order.payment_proof,
      "|" \o order.seller_code,
      "|" \o order.route_text_code,
      "|" \o order.buyer_email>>

\* str() of a FloatField value read back from the store: the stored
\* item["price"] // 100 is a whole number.
FloatStr(n) == ToString(n) \o ".0"

\* One element of VtexClientOrder.get_file_items.
FileItem(item) ==
    Concat(<<item.item_type,
             "|" \o ToString(item.item_number),
             "|" \o item.ean,
             "|" \o ToString(item.item_qty),
             "|" \o FloatStr(item.item_price_without_tax),
             "|" \o item.destination_address_code \o "|",
             "|" \o ToString(item.qty),
             "|" \o item.tax_code>>)

\* VtexClientOrder.get_file_items
get_file_items(its) == [i \in DOMAIN its |-> FileItem(its[i])]

\* "\n".join(lines) as the writes writelines makes of it: the lines'
\* texts with a "\n" between two of them.
RECURSIVE JoinedLines(_)
JoinedLines(lines) ==
    IF lines = <<>> THEN <<>>
    ELSE IF Len(lines) = 1 THEN <<lines[1]>>
    ELSE <<lines[1], "\n">> \o JoinedLines(Tail(lines))

\* file_path of create_order_files
FilePath(order) == "ag-pruebas/" \o order.order_number \o ".txt"

\* order.orderitem_set.all(): the rows of the order, in one of the orders
\* the store may return them in (the query states no ordering).
ItemRowsOf(rows, order) == {i \in DOMAIN rows : rows[i].order = order.id}

OrderItemSets(rows, order) ==
    LET ids == ItemRowsOf(rows, order)
        n == Cardinality(ids)
    IN  {[k \in 1..n |-> rows[p[k]]] :
            p \in {q \in [1..n -> ids] : \A a, b \in 1..n : a # b => q[a] # q[b]}}

\* ------------------------------------------------------------------ state

VARIABLES
    api_pages,        \* remote list endpoint: the pages, each a list of orderIds
    api_orders,       \* remote detail endpoint: orderId -> order document
    now,              \* datetime.utcnow() of this invocation
    querystring,      \* get_orders' querystring as sent with the next request
    requests,         \* the page numbers requested from the list endpoint
    orders_from_api,  \* get_orders' result, as accumulated so far
    orders,           \* table of Order rows
    items,            \* table of OrderItem rows
    orders_from_db,   \* the instances VtexClientOrder.factory returned
    ingested,         \* raw orders handed to factory so far
    hist,             \* the last two factory inputs and the store between them
    held,             \* the resources open now, in acquisition order
    events,           \* the acquisitions and releases so far
    remote,           \* remote file store: path -> the strings written
    idx,              \* position of create_order_files' loop in orders
    raised,           \* an exception is propagating (or has ended the call)
    pc                \* where the program is

fetchVars == <<api_pages, api_orders, now, querystring, requests, orders_from_api>>
storeVars == <<orders, items, orders_from_db, ingested, hist>>
sftpVars == <<held, events, remote, idx>>
vars == <<fetchVars, storeVars, sftpVars, raised, pc>>

NoQuerystring == [f_creationDate |-> [from |-> 0, to |-> 0], page |-> 0]
\* batch and prev_batch are <<>> before there is one, <<b>> for the input b.
NoHist == [batch |-> <<>>, prev_batch |-> <<>>,
           snap |-> [orders |-> <<>>, items |-> <<>>]]

\* ------------------------------------------------------------------ fetch

\* get_orders called with page = 1 (lines 176-192): querystring is <<>> for
\* None, or <<q>> for the dict q the caller passes.
GetOrders(qs) ==
    /\ pc = "start"
    /\ querystring' =
          [f_creationDate |-> IF qs = <<>>
                              THEN DefaultQuerystring.f_creationDate
                              ELSE qs[1].f_creationDate,
           page |-> 1]
    /\ requests' = <<>>
    /\ orders_from_api' = <<>>
    /\ pc' = "list"
    /\ UNCHANGED <<api_pages, api_orders, now, storeVars, sftpVars, raised>>

\* run(): VtexClientOrder.get_orders()
RunGetOrders == GetOrders(<<>>)

OptTimes == {<<>>, <<now - 2 * OneHour>>}

\* A caller that passes the filter get_orders_filter_hours_range builds.
CallGetOrders ==
    \E from_time \in OptTimes, to_time \in {<<>>, <<now>>} :
        GetOrders(<<[f_creationDate |->
            get_orders_filter_hours_range(from_time, to_time, now)]>>)

\* The list endpoint's answer for a page.
ApiList(page) ==
    [list |-> IF page \in DOMAIN api_pages THEN api_pages[page] ELSE <<>>,
     paging |-> [currentPage |-> page, pages |-> Len(api_pages)]]

\* The page test off by one: the last page is never requested.
HasNextPageStopsEarly(current_page, total_pages) == current_page + 1 < total_pages

\* if current_page < total_pages (line 211)
HasNextPage(current_page, total_pages) == current_page < total_pages

\* One activation of get_orders from the list request on (lines 192-217):
\* the details of the page's orders, then the next page or the return. The
\* recursion's orders_list + get_orders(...) is the accumulation in
\* orders_from_api.
GetOrdersPage ==
    /\ pc = "list"
    /\ LET response == ApiList(querystring.page)
           orders_list == [i \in DOMAIN response.list |->
                             api_orders[response.list[i]]]
           current_page == response.paging.currentPage
           total_pages == response.paging.pages
       IN  /\ requests' = Append(requests, querystring.page)
           /\ orders_from_api' = orders_from_api \o orders_list
           /\ IF HasNextPage(current_page, total_pages)
              THEN /\ querystring' = [querystring EXCEPT !.page = current_page + 1]
                   /\ pc' = "list"
              ELSE /\ querystring' = querystring
                   /\ pc' = "fetched"
    /\ UNCHANGED <<api_pages, api_orders, now, storeVars, sftpVars, raised>>

\* ------------------------------------------------------------------- sync

\* VtexClientOrder.factory(batch)
DoFactory(batch) ==
    LET r == OrderFactoryLoop(orders, <<>>, batch)
    IN  /\ orders' = r.rows
        /\ orders_from_db' = r.objects
        /\ raised' = r.raised
        /\ hist' = [batch |-> <<batch>>, prev_batch |-> hist.batch,
                    snap |-> [orders |-> orders, items |-> items]]
        /\ ingested' = ingested + Len(batch)
        /\ UNCHANGED items

\* VtexClientOrderItem.factory(orders_from_db)
DoItemFactory ==
    LET r == ItemFactoryLoop(items, orders_from_db)
    IN  /\ items' = r.rows
        /\ raised' = r.raised
        /\ UNCHANGED <<orders, orders_from_db, ingested, hist>>

\* A sync run's first step on an arbitrary batch of raw orders.
CallFactory ==
    /\ pc = "idle"
    /\ \E batch \in SeqsUpTo(RawOrders(MaxItems), MaxIngested - ingested) :
          DoFactory(batch)
    /\ pc' = IF raised' THEN "failed" ELSE "stored"
    /\ UNCHANGED <<fetchVars, sftpVars>>

\* A sync run's second step.
CallItemFactory ==
    /\ pc = "stored"
    /\ DoItemFactory
    /\ pc' = IF raised' THEN "failed" ELSE "idle"
    /\ UNCHANGED <<fetchVars, sftpVars>>

\* run(): VtexClientOrder.factory(orders_from_api[0:3])
RunSlice(fetched) == SubSeq(fetched, 1, IF Len(fetched) < 3 THEN Len(fetched) ELSE 3)

RunFactory ==
    /\ pc = "fetched"
    /\ DoFactory(RunSlice(orders_from_api))
    /\ pc' = IF raised' THEN "failed" ELSE "run_stored"
    /\ UNCHANGED <<fetchVars, sftpVars>>

\* run(): VtexClientOrderItem.factory(orders_from_db)
RunItemFactory ==
    /\ pc = "run_stored"
    /\ DoItemFactory
    /\ pc' = IF raised' THEN "failed" ELSE "upload"
    /\ UNCHANGED <<fetchVars, sftpVars>>

\* --------------------------------------------------------------- delivery

\* Entering a with block: the resource is open from here on.
Acquire(h, r) == Append(h, r)

\* The sftp client opened without a with block: nothing closes it.
ReleaseButSftp(h, r) == IF r = "sftp" THEN h ELSE SelectSeq(h, LAMBDA x : x # r)

\* Leaving a with block (lines 318, 327, 336): __exit__ closes the
\* resource; closing what was never opened does nothing.
Release(h, r) == SelectSeq(h, LAMBDA x : x # r)

Opening(r) ==
    /\ held' = Acquire(held, r)
    /\ events' = Append(events, <<"open", r>>)

Closing(r) ==
    /\ held' = Release(held, r)
    /\ events' = IF held' # held THEN Append(events, <<"close", r>>) ELSE events

\* upload_to_sftp: ssh_client.connect(...) succeeds (lines 327-334).
SshConnect ==
    /\ pc = "upload"
    /\ Opening("ssh")
    /\ pc' = "connected"
    /\ UNCHANGED <<fetchVars, storeVars, remote, idx, raised>>

\* ssh_client.connect(...) raises: no host, or authentication refused.
SshConnectFails ==
    /\ pc = "upload"
    /\ raised' = TRUE
    /\ pc' = "exit_ssh"
    /\ UNCHANGED <<fetchVars, storeVars, sftpVars>>

\* with ssh_client.open_sftp() as sftp (line 336)
OpenSftp ==
    /\ pc = "connected"
    /\ Opening("sftp")
    /\ idx' = 1
    /\ pc' = "files"
    /\ UNCHANGED <<fetchVars, storeVars, remote, raised>>

OpenSftpFails ==
    /\ pc = "connected"
    /\ raised' = TRUE
    /\ pc' = "exit_ssh"
    /\ UNCHANGED <<fetchVars, storeVars, sftpVars>>

\* create_order_files: with sftp.file(file_path, "wt") (lines 314-318);
\* mode w creates the remote file, or truncates the one there.
OpenFile ==
    /\ pc = "files"
    /\ idx <= Len(orders_from_db)
    /\ LET file_path == FilePath(orders_from_db[idx])
       IN  /\ Opening(file_path)
           /\ remote' = (file_path :> <<>>) @@ remote
    /\ pc' = "file_open"
    /\ UNCHANGED <<fetchVars, storeVars, idx, raised>>

OpenFileFails ==
    /\ pc = "files"
    /\ idx <= Len(orders_from_db)
    /\ raised' = TRUE
    /\ pc' = "exit_sftp"
    /\ UNCHANGED <<fetchVars, storeVars, sftpVars>>

\* The for loop of create_order_files has no order left (line 314).
FilesDone ==
    /\ pc = "files"
    /\ idx > Len(orders_from_db)
    /\ pc' = "exit_sftp"
    /\ UNCHANGED <<fetchVars, storeVars, sftpVars, raised>>

\* writelines(texts) / write(text) on the unbuffered remote file: one
\* request per text, and the k-th may fail, the ones before it being in
\* the file by then.
Write(texts, next) ==
    LET file_path == FilePath(orders_from_db[idx])
    IN  \E k \in 0..Len(texts) :
            /\ remote' = [remote EXCEPT ![file_path] = @ \o SubSeq(texts, 1, k)]
            /\ raised' = (k < Len(texts))
            /\ pc' = IF k < Len(texts) THEN "exit_file" ELSE next

\* order_file.writelines(get_file_headers(order)) (line 320)
WriteHeaders ==
    /\ pc = "file_open"
    /\ Write(get_file_headers(orders_from_db[idx]), "header_written")
    /\ UNCHANGED <<fetchVars, storeVars, held, events, idx>>

\* order_file.write("\n") (line 321)
WriteNewline ==
    /\ pc = "header_written"
    /\ Write(<<"\n">>, "newline_written")
    /\ UNCHANGED <<fetchVars, storeVars, held, events, idx>>

\* order_file.writelines("\n".join(get_file_items(items))) (lines 316, 322)
WriteItems ==
    /\ pc = "newline_written"
    /\ \E its \in OrderItemSets(items, orders_from_db[idx]) :
           Write(JoinedLines(get_file_items(its)), "exit_file")
    /\ UNCHANGED <<fetchVars, storeVars, held, events, idx>>

\* The end of the with block of line 318, reached normally or by an
\* exception: the file is closed; the loop goes on, or the exception does.
ExitFile ==
    /\ pc = "exit_file"
    /\ Closing(FilePath(orders_from_db[idx]))
    /\ IF raised
       THEN idx' = idx /\ pc' = "exit_sftp"
       ELSE idx' = idx + 1 /\ pc' = "files"
    /\ UNCHANGED <<fetchVars, storeVars, remote, raised>>

\* The end of the with block of line 336.
ExitSftp ==
    /\ pc = "exit_sftp"
    /\ Closing("sftp")
    /\ pc' = "exit_ssh"
    /\ UNCHANGED <<fetchVars, storeVars, remote, idx, raised>>

\* The end of the with block of line 327.
ExitSsh ==
    /\ pc = "exit_ssh"
    /\ Closing("ssh")
    /\ pc' = IF raised THEN "failed" ELSE "done"
    /\ UNCHANGED <<fetchVars, storeVars, remote, idx, raised>>

Upload ==
    \/ SshConnect \/ SshConnectFails \/ OpenSftp \/ OpenSftpFails
    \/ OpenFile \/ OpenFileFails \/ FilesDone
    \/ WriteHeaders \/ WriteNewline \/ WriteItems
    \/ ExitFile \/ ExitSftp \/ ExitSsh

\* --------------------------------------------------------- specifications

InitFetchIdle ==
    /\ api_pages = <<>>
    /\ api_orders = <<>>
    /\ now = 0
    /\ querystring = NoQuerystring
    /\ requests = <<>>
    /\ orders_from_api = <<>>

InitStoreEmpty ==
    /\ orders = <<>>
    /\ items = <<>>
    /\ orders_from_db = <<>>
    /\ ingested = 0
    /\ hist = NoHist

InitSftpIdle ==
    /\ held = <<>>
    /\ events = <<>>
    /\ remote = <<>>
    /\ idx = 0
    /\ raised = FALSE

\* The fetcher against a remote API of up to MaxPages pages.
InitFetch ==
    /\ api_pages \in SeqsUpTo(SeqsUpTo(OrderIds, MaxPageSize), MaxPages)
    /\ api_orders = [id \in OrderIds |-> RawOrder(id, <<>>)]
    /\ now \in Nows
    /\ querystring = NoQuerystring
    /\ requests = <<>>
    /\ orders_from_api = <<>>
    /\ InitStoreEmpty
    /\ InitSftpIdle
    /\ pc = "start"

NextFetch == RunGetOrders \/ CallGetOrders \/ GetOrdersPage

SpecFetch == InitFetch /\ [][NextFetch]_vars

\* Sync runs (factory, then the item factory) against one store.
InitSync ==
    /\ InitFetchIdle
    /\ InitStoreEmpty
    /\ InitSftpIdle
    /\ pc = "idle"

NextSync == CallFactory \/ CallItemFactory

SpecSync == InitSync /\ [][NextSync]_vars

\* upload_to_sftp on the orders of one sync run into an empty store.
InitDeliver ==
    /\ InitFetchIdle
    /\ \E ids \in SeqsUpTo(OrderIds, MaxFiles), its \in ItemLists(MaxItems) :
          LET batch == [i \in DOMAIN ids |-> RawOrder(ids[i], its)]
              f == OrderFactoryLoop(<<>>, <<>>, batch)
              g == ItemFactoryLoop(<<>>, f.objects)
          IN  /\ orders = f.rows
              /\ orders_from_db = f.objects
              /\ items = g.rows
              /\ ingested = Len(batch)
              /\ hist = [NoHist EXCEPT !.batch = <<batch>>]
    /\ InitSftpIdle
    /\ pc = "upload"

SpecDeliver == InitDeliver /\ [][Upload]_vars

\* The pages of the list endpoint for the orders ids, size to a page.
PagesOf(ids, size) ==
    [p \in 1..((Len(ids) + size - 1) \div size) |->
        SubSeq(ids, (p - 1) * size + 1,
               IF p * size < Len(ids) THEN p * size ELSE Len(ids))]

\* run(): the whole script, against a remote API listing distinct orders.
Init ==
    /\ \E n \in 0..Len(RunOrderIds), size \in 1..MaxPageSize :
          api_pages = PagesOf(SubSeq(RunOrderIds, 1, n), size)
    /\ \E its \in ItemLists(MaxItems) :
          api_orders = [id \in Range(RunOrderIds) |-> RawOrder(id, its)]
    /\ now \in Nows
    /\ querystring = NoQuerystring
    /\ requests = <<>>
    /\ orders_from_api = <<>>
    /\ InitStoreEmpty
    /\ InitSftpIdle
    /\ pc = "start"

Next ==
    \/ RunGetOrders \/ GetOrdersPage \/ RunFactory \/ RunItemFactory
    \/ Upload

Spec == Init /\ [][Next]_vars

\* ----------------------------------------------------------------- claims

\* C1: after any sequence of sync runs the store holds exactly one Order
\* per order_number: no two rows share an order_number, every instance the
\* factory returned is the one row of its order_number, a row that was
\* there before the run keeps its place and its order_number, and the
\* lookup never finds several rows.
C1_OneOrderPerNumber ==
    /\ ~raised
    /\ \A i, j \in DOMAIN orders :
          orders[i].order_number = orders[j].order_number => i = j
    /\ \A k \in DOMAIN orders_from_db :
          /\ OrderMatches(orders, orders_from_db[k].order_number)
                = {orders_from_db[k].id}
          /\ orders[orders_from_db[k].id].from_api
                \in {hist.batch[1][b] : b \in DOMAIN hist.batch[1]}
    /\ \A i \in DOMAIN hist.snap.orders :
          /\ i \in DOMAIN orders
          /\ orders[i].order_number = hist.snap.orders[i].order_number

\* C1 witness: a run re-ingested the one stored order_number with another
\* payload, and the store still holds one row, now with that payload.
C1_Witness ==
    /\ pc = "idle"
    /\ Len(hist.snap.orders) = 1
    /\ Len(orders) = 1
    /\ orders[1].from_api # hist.snap.orders[1].from_api
    /\ orders[1].from_api.items # <<>>

\* The OrderItem rows of the order with pk o.
RowsOfOrder(o) == {i \in DOMAIN items : items[i].order = o}

\* C2: after a sync run the OrderItems of every stored order are exactly
\* those of its retained payload: as many as the payload has items, and
\* for the i-th payload item exactly one row, with its ean and
\* item_number = i.
C2_ItemsMatchPayload ==
    pc = "idle" =>
        \A o \in DOMAIN orders :
            LET payload == orders[o].from_api.items
            IN  /\ Cardinality(RowsOfOrder(o)) = Len(payload)
                /\ \A i \in DOMAIN payload :
                      Cardinality({r \in RowsOfOrder(o) :
                          /\ items[r].ean = payload[i].ean
                          /\ items[r].item_number = i}) = 1

\* C6: a sync run whose input is the input of the run before it leaves
\* the store as that run left it.
C6_Idempotent ==
    (pc = "idle" /\ hist.batch # <<>> /\ hist.batch = hist.prev_batch) =>
        /\ orders = hist.snap.orders
        /\ items = hist.snap.items

\* C6 witness: the same batch, of an order with an item, was run twice.
C6_Witness ==
    /\ pc = "idle"
    /\ hist.batch # <<>>
    /\ hist.batch = hist.prev_batch
    /\ Len(orders) >= 1
    /\ Len(items) >= 1

\* The pages' orders' documents, in page order and then in-page order.
AllListed ==
    Flatten([p \in DOMAIN api_pages |->
                [i \in DOMAIN api_pages[p] |-> api_orders[api_pages[p][i]]]])

\* Pages get_orders has to request: 1..N, and page 1 when N = 0.
PagesToRequest == IF Len(api_pages) = 0 THEN 1 ELSE Len(api_pages)

\* C4: get_orders started at page 1 requests the pages 1, 2, ... in turn,
\* goes on exactly while the last page requested is below total_pages (so
\* it ends after at most that many requests), and returns the document of
\* every order listed, once per listing, in page and then in-page order.
C4_PaginationComplete ==
    /\ requests = [i \in 1..Len(requests) |-> i]
    /\ Len(requests) <= PagesToRequest
    /\ pc = "list" => Len(requests) < PagesToRequest
    /\ pc = "fetched" =>
          /\ Len(requests) = PagesToRequest
          /\ orders_from_api = AllListed

\* C4 witness: three pages of different sizes were fetched.
C4_Witness ==
    /\ pc = "fetched"
    /\ Len(api_pages) = 3
    /\ Len(api_pages[1]) = 2
    /\ Len(api_pages[2]) = 0
    /\ Len(api_pages[3]) = 1
    /\ Len(orders_from_api) = 3

\* C5: the filter run() sends (get_orders without a querystring) is the
\* last hour: from now - 1 hour to now, and from <= to.
C5_DefaultWindowIsLastHour ==
    requests # <<>> =>
        /\ querystring.f_creationDate.from = now - OneHour
        /\ querystring.f_creationDate.to = now
        /\ querystring.f_creationDate.from <= querystring.f_creationDate.to

\* The order's items in ascending item_number order.
Ascending(its) ==
    \A a, b \in DOMAIN its : a < b => its[a].item_number <= its[b].item_number

\* The file of an order with its item lines in the order of its.
FileOf(order, its) ==
    get_file_headers(order) \o <<"\n">> \o JoinedLines(get_file_items(its))

\* C3: every file of a finished delivery is the header line followed by
\* one line per item of the order, in ascending item_number order.
C3_FileLayout ==
    pc = "done" =>
        \A k \in DOMAIN orders_from_db :
            \E its \in OrderItemSets(items, orders_from_db[k]) :
                /\ Ascending(its)
                /\ remote[FilePath(orders_from_db[k])]
                      = FileOf(orders_from_db[k], its)

\* C7: in every state of a delivery, a file in the remote store is the
\* complete file of its order, never a part of it.
C7_AtomicFiles ==
    \A path \in DOMAIN remote :
        \E k \in DOMAIN orders_from_db :
            /\ FilePath(orders_from_db[k]) = path
            /\ \E its \in OrderItemSets(items, orders_from_db[k]) :
                  remote[path] = FileOf(orders_from_db[k], its)

RECURSIVE Replay(_, _)
\* The resources left open by the events evs on top of stack, and whether
\* every close closed the resource opened last.
Replay(evs, stack) ==
    IF evs = <<>> THEN [ok |-> TRUE, stack |-> stack]
    ELSE LET e == Head(evs)
         IN  IF e[1] = "open" THEN Replay(Tail(evs), Append(stack, e[2]))
             ELSE IF stack # <<>> /\ stack[Len(stack)] = e[2]
             THEN Replay(Tail(evs), SubSeq(stack, 1, Len(stack) - 1))
             ELSE [ok |-> FALSE, stack |-> stack]

\* C8: upload_to_sftp releases what it acquired, in reverse acquisition
\* order (each close closes the resource opened last: file, then sftp,
\* then ssh), nothing is open when the call has ended, normally or by an
\* exception, and at most one remote file is open at a time.
C8_ReleasedInReverseOrder ==
    LET r == Replay(events, <<>>)
    IN  /\ r.ok
        /\ r.stack = held
        /\ pc \in {"done", "failed"} => held = <<>>
        /\ Cardinality({i \in DOMAIN held : held[i] \notin {"ssh", "sftp"}}) <= 1
        /\ \A i \in DOMAIN held :
              held[i] = (CASE i = 1 -> "ssh" [] i = 2 -> "sftp"
                           [] OTHER -> FilePath(orders_from_db[idx]))

\* C8 witness: a write to the second order's file failed, and the call
\* ended with the files, the sftp session and the ssh session closed.
C8_Witness ==
    /\ pc = "failed"
    /\ idx = 2
    /\ Len(events) = 8
    /\ events[5] = <<"open", FilePath(orders_from_db[2])>>
    /\ events[6] = <<"close", FilePath(orders_from_db[2])>>
    /\ events[7] = <<"close", "sftp">>
    /\ events[8] = <<"close", "ssh">>

\* C9 as stated: the header written for an order has exactly 15 segments.
C9_FifteenSegments ==
    pc = "header_written" =>
        Len(remote[FilePath(orders_from_db[idx])]) = 15

\* C9 as amended: the header written for an order has exactly 16
\* segments, the type and then 15 segments that start with "|": client
\* code, file type, company code, order date, shipping date, currency,
\* buyer/address text, "1", warehouse code, order number, localization
\* text, sell type/payment, seller code, route code, buyer email.
C9_SixteenSegments ==
    pc = "header_written" =>
        LET o == orders_from_db[idx]
            h == remote[FilePath(o)]
        IN  /\ Len(h) = 16
            /\ h[1] = "H"
            /\ h[2] = "|CT0000344"
            /\ h[3] = "|E-COMM"
            /\ h[4] = "|120"
            /\ h[5] = "|04032021"
            /\ h[6] = "|09032021"
            /\ h[7] = "|COP"
            /\ h[8] = "|Ana Paz/900/Cali/Main 42 Centro/555/"
            /\ h[9] = "|1"
            /\ h[10] = "|CM0000001"
            /\ h[11] = "|" \o o.order_number
            /\ h[12] = "|?,900,?,Ana Paz,V010,760"
            /\ h[13] = "|222,"
            /\ h[14] = "|V02011"
            /\ h[15] = "|"
            /\ h[16] = "|ana@x.co"

\* C9 witness: the header of the second order of a delivery is written.
C9_Witness ==
    /\ pc = "header_written"
    /\ idx = 2
    /\ orders_from_db[2].order_number = "o2"
    /\ Len(remote[FilePath(orders_from_db[2])]) = 16

\* C10: when run() ends with no step failed, every order the fetcher
\* returned is in the store with its document and has its file
\* {order_number}.txt in the remote store; and a file in the remote store
\* is the file of an order that is in the store with its items.
C10_EveryFetchedOrderDelivered ==
    /\ pc = "done" =>
          \A i \in DOMAIN orders_from_api :
              /\ \E r \in DOMAIN orders :
                    /\ orders[r].order_number = orders_from_api[i].orderId
                    /\ orders[r].from_api = orders_from_api[i]
              /\ FilePath([order_number |-> orders_from_api[i].orderId])
                    \in DOMAIN remote
    /\ \A path \in DOMAIN remote :
          \E r \in DOMAIN orders :
              /\ FilePath(orders[r]) = path
              /\ \A i \in DOMAIN orders[r].from_api.items :
                    \E k \in RowsOfOrder(r) :
                        items[k].ean = orders[r].from_api.items[i].ean

====
